---- MODULE Spec2Model ----
(***************************************************************************)
(* Model of check_elasticsearch_shards.py, a Nagios plugin that fetches    *)
(* the index catalog of an Elasticsearch cluster and checks shard counts   *)
(* or average primary-shard sizes against a threshold.                     *)
(*                                                                         *)
(* Strings are sequences of one-character strings, so that endswith,       *)
(* replace, split, int() and float() are computed character by character.  *)
(* A float is kept as an exact decimal [m |-> mantissa, e |-> exponent]    *)
(* standing for m * 10^e; the rounding of IEEE doubles is not modelled.    *)
(* A call either returns, leaves through sys.exit, or raises:              *)
(*   [kind |-> "return", val |-> v]                                        *)
(*   [kind |-> "exit",   code |-> c, out |-> text]                         *)
(*   [kind |-> "raise",  exc |-> name]                                     *)
(***************************************************************************)
EXTENDS Integers, Sequences, FiniteSets, TLC

VARIABLES
  pc,                 \* the step of __main__ to run next, "done" after exit
  ended_at,           \* the step that ended the process ("" while it runs)
  argv,               \* the command line
  response,           \* what the cluster answers to the request of line 122
  l,                  \* the namespace parse_args returns
  min_shard_count, max_shard_size,
  es,                 \* the client: "none", "open" or "closed"
  es_index_cat_raw, es_index_cat_list, failed_index_list,
  stdout, stderr, exit_code

vars == <<pc, ended_at, argv, response, l, min_shard_count, max_shard_size,
          es, es_index_cat_raw, es_index_cat_list, failed_index_list,
          stdout, stderr, exit_code>>

\* ------------------------------------------------------------- bounds
\* Longest size token given to the size parser on its own.
MaxLen == 3
\* Most lines of a catalog response.
MaxLines == 2
\* Most spaces between two columns of a catalog line.
MaxGap == 2

\* ---------------------------------------------------- program constants
NAGIOS_OK == 0
NAGIOS_WARNING == 1
NAGIOS_CRITICAL == 2
NAGIOS_UNKNOWN == 3

\* ------------------------------------------------------ call outcomes
Return(v) == [kind |-> "return", val |-> v]
SysExit(c, text) == [kind |-> "exit", code |-> c, out |-> text]
Raise(e) == [kind |-> "raise", exc |-> e]

\* Printed text is a sequence of parts: the pieces of the format string
\* and the values put into it.
Lit(x) == [t |-> "lit", v |-> x]
Str(x) == [t |-> "str", v |-> x]
Num(x) == [t |-> "num", v |-> x]

\* The status the interpreter exits with: sys.exit's argument, or 1 after an
\* exception nothing catches (the script has no try statement).
ExitStatus(o) == IF o.kind = "exit" THEN o.code ELSE 1

\* No value yet.
None == [kind |-> "none"]

\* ------------------------------------------------------------ strings
Digits == {"0", "1", "2", "3", "4", "5", "6", "7", "8", "9"}

DigitVal(c) ==
  CASE c = "0" -> 0 [] c = "1" -> 1 [] c = "2" -> 2 [] c = "3" -> 3
    [] c = "4" -> 4 [] c = "5" -> 5 [] c = "6" -> 6 [] c = "7" -> 7
    [] c = "8" -> 8 [] c = "9" -> 9

\* str.endswith(suffix)
EndsWith(s, suffix) ==
  /\ Len(s) >= Len(suffix)
  /\ SubSeq(s, Len(s) - Len(suffix) + 1, Len(s)) = suffix

\* str.startswith(prefix)
StartsWith(s, prefix) ==
  /\ Len(s) >= Len(prefix)
  /\ SubSeq(s, 1, Len(prefix)) = prefix

\* str.replace(old, ""): every non-overlapping occurrence of old, found
\* from the left, is removed.
RECURSIVE Remove(_, _)
Remove(s, old) ==
  IF s = <<>> THEN <<>>
  ELSE IF StartsWith(s, old)
       THEN Remove(SubSeq(s, Len(old) + 1, Len(s)), old)
       ELSE <<Head(s)>> \o Remove(Tail(s), old)

\* sub in s
Contains(s, sub) ==
  \E i \in 1..(Len(s) - Len(sub) + 1) : SubSeq(s, i, i + Len(sub) - 1) = sub

\* The value of a string of digits, read from the left.
RECURSIVE DigitsVal(_, _)
DigitsVal(s, acc) ==
  IF s = <<>> THEN acc ELSE DigitsVal(Tail(s), 10 * acc + DigitVal(Head(s)))

AllDigits(s) == \A i \in 1..Len(s) : s[i] \in Digits

\* int(s) for s over digits, "-" and characters no integer literal holds:
\* an optional sign and at least one digit, else ValueError.
IntOf(s) ==
  LET neg == s # <<>> /\ Head(s) = "-"
      body == IF neg THEN Tail(s) ELSE s
  IN IF body # <<>> /\ AllDigits(body)
     THEN Return(IF neg THEN 0 - DigitsVal(body, 0) ELSE DigitsVal(body, 0))
     ELSE Raise("ValueError")

\* The characters of s other than ".".
NoDots(s) == SelectSeq(s, LAMBDA c : c # ".")

\* The number of characters after the first "." of s (0 without one).
RECURSIVE AfterDot(_)
AfterDot(s) ==
  IF s = <<>> THEN 0
  ELSE IF Head(s) = "." THEN Len(s) - 1 ELSE AfterDot(Tail(s))

\* float(s) for s over digits, "-", "." and characters no float literal
\* holds: an optional sign, digits with at most one "." among them and at
\* least one digit ("1.", ".5", "-.5" are literals; ".", "-", "" are not).
FloatOf(s) ==
  LET neg == s # <<>> /\ Head(s) = "-"
      body == IF neg THEN Tail(s) ELSE s
      digs == NoDots(body)
      m == DigitsVal(digs, 0)
  IN IF /\ digs # <<>>
        /\ AllDigits(digs)
        /\ Len(body) - Len(digs) <= 1
     THEN Return([m |-> IF neg THEN 0 - m ELSE m, e |-> 0 - AfterDot(body)])
     ELSE Raise("ValueError")

\* ----------------------------------------------------------- decimals
RECURSIVE Pow10(_)
Pow10(k) == IF k = 0 THEN 1 ELSE 10 * Pow10(k - 1)

\* x * 10^k < y, for k >= 0, |x| <= 2000 and |y| < 10000000: beyond 10^6
\* the sign of x decides, which keeps every product within 32 bits.
ScaledLT(x, k, y) ==
  IF k > 6 THEN x < 0 \/ (x = 0 /\ 0 < y) ELSE x * Pow10(k) < y

\* x * 10^k > y, under the same conditions.
ScaledGT(x, k, y) ==
  IF k > 6 THEN x > 0 \/ (x = 0 /\ 0 > y) ELSE x * Pow10(k) > y

\* a.m * 10^a.e < b.m * 10^b.e
DecLT(a, b) ==
  IF a.e >= b.e THEN ScaledLT(a.m, a.e - b.e, b.m)
  ELSE ScaledGT(b.m, b.e - a.e, a.m)

DecEQ(a, b) == ~DecLT(a, b) /\ ~DecLT(b, a)

\* a float times 10^k (k may be negative): the unit factors of the parser.
Times10(v, k) == [m |-> v.m, e |-> v.e + k]

\* ------------------------------------------------------- size parser
\* What float(...) * factor gives: the float's value, or its ValueError.
Scaled(f, k) == IF f.kind = "return" THEN Return(Times10(f.val, k)) ELSE f

GB == <<"g", "b">>
TB == <<"t", "b">>
MB == <<"m", "b">>
KB == <<"k", "b">>
B == <<"b">>

\* The parser with the bare b tried before the two-letter units.
get_gb_size_b_first(s) ==
  IF EndsWith(s, B) THEN Scaled(FloatOf(Remove(s, B)), 0 - 9)
  ELSE IF EndsWith(s, GB) THEN Scaled(FloatOf(Remove(s, GB)), 0)
  ELSE IF EndsWith(s, TB) THEN Scaled(FloatOf(Remove(s, TB)), 3)
  ELSE IF EndsWith(s, MB) THEN Scaled(FloatOf(Remove(s, MB)), 0 - 3)
  ELSE IF EndsWith(s, KB) THEN Scaled(FloatOf(Remove(s, KB)), 0 - 6)
  ELSE SysExit(NAGIOS_CRITICAL,
               <<Lit("ERROR:"), Lit(" unexpected. size string: "), Str(s)>>)

get_gb_size_from_string(s) ==
  IF EndsWith(s, GB) THEN Scaled(FloatOf(Remove(s, GB)), 0)
  ELSE IF EndsWith(s, TB) THEN Scaled(FloatOf(Remove(s, TB)), 3)
  ELSE IF EndsWith(s, MB) THEN Scaled(FloatOf(Remove(s, MB)), 0 - 3)
  ELSE IF EndsWith(s, KB) THEN Scaled(FloatOf(Remove(s, KB)), 0 - 6)
  ELSE IF EndsWith(s, B) THEN Scaled(FloatOf(Remove(s, B)), 0 - 9)
  ELSE SysExit(NAGIOS_CRITICAL,
               <<Lit("ERROR:"), Lit(" unexpected. size string: "), Str(s)>>)

\* ----------------------------------------------------- catalog parser
SP == " "
NL == "\n"

\* s.split(sep) for a one-character sep: the pieces between separators,
\* empty ones included; cut(k) is the place of the k-th separator.
SplitOn(s, sep) ==
  LET cuts == {i \in 1..Len(s) : s[i] = sep}
      n == Cardinality(cuts)
      cut(k) == IF k = 0 THEN 0
                ELSE IF k = n + 1 THEN Len(s) + 1
                ELSE CHOOSE i \in cuts :
                       Cardinality({j \in cuts : j <= i}) = k
  IN [k \in 1..(n + 1) |-> SubSeq(s, cut(k - 1) + 1, cut(k) - 1)]

\* s.split(): the maximal runs of characters other than whitespace.
Words(s) == SelectSeq(SplitOn(s, SP), LAMBDA w : w # <<>>)

\* sep.join(ws)
RECURSIVE Join(_, _)
Join(ws, sep) ==
  IF ws = <<>> THEN <<>>
  ELSE IF Len(ws) = 1 THEN ws[1]
       ELSE ws[1] \o sep \o Join(Tail(ws), sep)

INDEX == <<" ", "i", "n", "d", "e", "x", " ">>
CLOSE == <<" ", "c", "l", "o", "s", "e", " ">>

\* The test without its " close " part.
SkippedOpenOnly(line) == line = <<>> \/ Contains(line, INDEX)

\* The test of line 58: the line is skipped.
Skipped(line) == line = <<>> \/ Contains(line, INDEX) \/ Contains(line, CLOSE)

\* The loop of parse_index_info over the lines left, index_list so far.
RECURSIVE ParseLines(_, _)
ParseLines(lines, index_list) ==
  IF lines = <<>> THEN Return(index_list)
  ELSE IF Skipped(Head(lines)) THEN ParseLines(Tail(lines), index_list)
       ELSE LET line == Join(Words(Head(lines)), <<SP>>)
                w == Words(line)
            IN \* l[2], l[3], l[7] of a 0-based list: IndexError below 8 fields
               IF Len(w) < 8 THEN Raise("IndexError")
               ELSE ParseLines(Tail(lines),
                               Append(index_list, <<w[3], w[4], w[8]>>))

parse_index_info(es_index_info) ==
  ParseLines(SplitOn(es_index_info, NL), <<>>)

\* ------------------------------------------------ threshold evaluators
\* The loop of confirm_es_shard_count over the records left.
RECURSIVE CountLoop(_, _, _)
CountLoop(es_index_list, min_count, failed) ==
  IF es_index_list = <<>> THEN Return(failed)
  ELSE LET rec == Head(es_index_list)
           number_of_shards == IntOf(rec[2])
       IN IF number_of_shards.kind # "return" THEN number_of_shards
          ELSE CountLoop(Tail(es_index_list), min_count,
                         IF number_of_shards.val < min_count
                         THEN Append(failed, rec[1]) ELSE failed)

\* The count check with <= for <.
confirm_es_shard_count_le(es_index_list, min_count) ==
  CountLoop(es_index_list, min_count + 1, <<>>)

confirm_es_shard_count(es_index_list, min_count) ==
  CountLoop(es_index_list, min_count, <<>>)

\* The comparison with >= for >.
AvgAtLeast(size, n, max) ==
  LET bound == [m |-> max.m * n, e |-> max.e]
  IN IF n > 0 THEN ~DecLT(size, bound) ELSE ~DecLT(bound, size)

\* size / n > max, for n # 0: across the multiplication by n the
\* comparison turns when n is negative.
AvgExceeds(size, n, max) ==
  LET bound == [m |-> max.m * n, e |-> max.e]
  IN IF n > 0 THEN DecLT(bound, size) ELSE DecLT(size, bound)

\* The loop of confirm_es_shard_size over the records left.
RECURSIVE SizeLoop(_, _, _)
SizeLoop(es_index_list, max_size, failed) ==
  IF es_index_list = <<>> THEN Return(failed)
  ELSE LET rec == Head(es_index_list)
           number_of_shards == IntOf(rec[2])
           size == get_gb_size_from_string(rec[3])
       IN IF number_of_shards.kind # "return" THEN number_of_shards
          ELSE IF size.kind # "return" THEN size
          ELSE IF number_of_shards.val = 0 THEN Raise("ZeroDivisionError")
          ELSE SizeLoop(Tail(es_index_list), max_size,
                        IF AvgExceeds(size.val, number_of_shards.val, max_size)
                        THEN Append(failed, rec[1]) ELSE failed)

confirm_es_shard_size(es_index_list, max_size) ==
  SizeLoop(es_index_list, max_size, <<>>)

\* ------------------------------------------------------- command line
\* The command lines tried. required: --es_host, --es_user and --es_pass
\* are all there; action: the value of --action ("" when not given);
\* thresholds: the --min_shard_count and --max_shard_size options given,
\* in order; ca_file and es_port as given (defaults "" and "9200").
ActionArgs == {"", "check_shard_size", "check_shard_count", "check_all"}

MinArgs == {<<"2">>, <<"x">>}
MaxArgs == {<<"2", "g", "b">>, <<"2", "0", "0", "0", "m", "b">>,
            <<"2", "G", "B">>, <<"x", "g", "b">>}

Opt(name, value) == [opt |-> name, value |-> value]

ThresholdArgs ==
  {<<>>}
    \cup {<<Opt("--min_shard_count", v)>> : v \in MinArgs}
    \cup {<<Opt("--max_shard_size", v)>> : v \in MaxArgs}
    \cup {<<Opt("--min_shard_count", <<"2">>),
            Opt("--max_shard_size", <<"2", "g", "b">>)>>}

CaFiles == {"", "missing.pem"}
Ports == {<<"9", "2", "0", "0">>, <<"x">>}

\* A command line with every required option, the default port and no CA
\* file.
Argv(action, thresholds) ==
  [required |-> TRUE, action |-> action, thresholds |-> thresholds,
   ca_file |-> "", es_port |-> <<"9", "2", "0", "0">>]

Argvs ==
  {Argv(a, t) : a \in ActionArgs, t \in ThresholdArgs}
    \cup {[Argv("", <<>>) EXCEPT !.required = FALSE]}
    \cup {[Argv("", <<>>) EXCEPT !.ca_file = f] : f \in CaFiles}
    \cup {[Argv("", <<>>) EXCEPT !.es_port = q] : q \in Ports}

\* The value of the last option called name, or the default.
OptValue(thresholds, name, default) ==
  LET given == SelectSeq(thresholds, LAMBDA o : o.opt = name)
  IN IF given = <<>> THEN default ELSE given[Len(given)].value

\* parse_args: argparse ends the run with status 2 and a usage message on
\* stderr when a required option is missing, --action is no choice, or
\* both options of the mutually exclusive group are given.
parse_args(a) ==
  IF \/ ~a.required
     \/ a.action \notin {"", "check_shard_size", "check_shard_count"}
     \/ \E i, j \in 1..Len(a.thresholds) :
          a.thresholds[i].opt # a.thresholds[j].opt
  THEN SysExit(2, <<>>)
  ELSE Return([action |-> IF a.action = "" THEN "check_shard_size"
                          ELSE a.action,
               min_shard_count |->
                 OptValue(a.thresholds, "--min_shard_count", <<"3">>),
               max_shard_size |->
                 OptValue(a.thresholds, "--max_shard_size",
                          <<"5", "0", "g", "b">>),
               ca_file |-> a.ca_file,
               es_port |-> a.es_port,
               es_index |-> <<>>])

\* ------------------------------------------------- catalog responses
\* Index names, in the order the request sorts them by.
Name(j) == <<"i", CASE j = 1 -> "1" [] j = 2 -> "2" [] j = 3 -> "3"
                    [] j = 4 -> "4" [] OTHER -> "9">>

OPEN == <<"o", "p", "e", "n">>
GREEN == <<"g", "r", "e", "e", "n">>

\* A line of the listing: the columns h, s, i, p, r, dc, ss,
\* pri.store.size, creation.date.string, gap spaces apart.
Row(status, name, pri, size, gap) ==
  Join(<<GREEN, status, name, pri, <<"1">>, <<"7">>, size, size, <<"d">>>>,
       [k \in 1..gap |-> SP])

\* A line cut short: 4 columns.
ShortRow(name) == Join(<<GREEN, OPEN, name, <<"1">>>>, <<SP>>)

\* The header line.
HeaderRow ==
  Join(<<<<"h">>, <<"s">>, <<"i", "n", "d", "e", "x">>, <<"p">>, <<"r">>,
         <<"d", "c">>, <<"s", "s">>, <<"p", "s", "s">>, <<"c", "d">>>>,
       <<SP>>)

\* What a line may report of its index.
RowKinds == {"1x2gb", "2x4gb", "2x2gb", "3x900mb", "0x1gb", "xx1gb",
             "1x1GB", "closed", "short", "wide"}

RowOf(kind, name) ==
  CASE kind = "1x2gb" -> Row(OPEN, name, <<"1">>, <<"2", "g", "b">>, 1)
    [] kind = "2x4gb" -> Row(OPEN, name, <<"2">>, <<"4", "g", "b">>, 1)
    [] kind = "2x2gb" -> Row(OPEN, name, <<"2">>, <<"2", "g", "b">>, 1)
    [] kind = "3x900mb" ->
         Row(OPEN, name, <<"3">>, <<"9", "0", "0", "m", "b">>, 1)
    [] kind = "0x1gb" -> Row(OPEN, name, <<"0">>, <<"1", "g", "b">>, 1)
    [] kind = "xx1gb" -> Row(OPEN, name, <<"x">>, <<"1", "g", "b">>, 1)
    [] kind = "1x1GB" -> Row(OPEN, name, <<"1">>, <<"1", "G", "B">>, 1)
    [] kind = "closed" ->
         Row(<<"c", "l", "o", "s", "e">>, name, <<"1">>, <<"9", "t", "b">>, 1)
    [] kind = "short" -> ShortRow(name)
    [] kind = "wide" -> Row(OPEN, name, <<"1">>, <<"9", "g", "b">>, 2)

\* The text of a listing: every line ends with a line break.
RECURSIVE Listing(_, _)
Listing(kinds, j) ==
  IF kinds = <<>> THEN <<>>
  ELSE RowOf(Head(kinds), Name(j)) \o <<NL>> \o Listing(Tail(kinds), j + 1)

Catalogs ==
  UNION {{Listing(ks, 1), HeaderRow \o <<NL>> \o Listing(ks, 1)} :
           ks \in UNION {[1..n -> RowKinds] : n \in 0..MaxLines}}

\* What es.cat.indices gives: the listing, or the client's exception.
Responses ==
  {Return(t) : t \in Catalogs}
    \cup {Raise("ConnectionError"), Raise("SSLError"),
          Raise("AuthenticationException")}


\* The characters of the size tokens tried: digits, a point, a sign, the
\* letters of the units and an upper-case letter.
SizeAlphabet == {"1", "5", ".", "-", "t", "g", "m", "k", "b", "G"}

\* Every string over SizeAlphabet of at most MaxLen characters.
SizeTokens == UNION {[1..n -> SizeAlphabet] : n \in 0..MaxLen}

\* The lines of the catalogs given to the parser: the line of the j-th
\* index with lead spaces before it, trail spaces after it and gap spaces
\* between its columns; an empty line; a line of one space.
CatLine(kind, j, lead, gap) ==
  LET row == CASE kind = "data" ->
                    Row(OPEN, Name(j), <<"2">>, <<"4", "g", "b">>, gap)
               [] kind = "odd" ->
                    Row(OPEN, Name(j), <<"x">>, <<"1", "G", "B">>, gap)
               [] kind = "closed" ->
                    Row(<<"c", "l", "o", "s", "e">>, Name(j), <<"1">>,
                        <<"9", "t", "b">>, gap)
               [] kind = "header" ->
                    Join(<<<<"h">>, <<"s">>, <<"i", "n", "d", "e", "x">>,
                           <<"p">>, <<"r">>, <<"d", "c">>, <<"s", "s">>,
                           <<"p", "s", "s">>, <<"c", "d">>>>,
                         [k \in 1..gap |-> SP])
               [] kind = "short" ->
                    Join(<<GREEN, OPEN, Name(j), <<"1">>>>,
                         [k \in 1..gap |-> SP])
  IN [k \in 1..lead |-> SP] \o row \o [k \in 1..lead |-> SP]

CatLines(j) ==
  {CatLine(kind, j, lead, gap) :
     kind \in {"data", "odd", "closed", "header", "short"},
     lead \in {0, 1}, gap \in {1, MaxGap}}
    \cup {<<>>, <<SP>>}

\* The texts of at most MaxLines such lines, each ended by a line break.
RECURSIVE CatTexts(_, _)
CatTexts(j, n) ==
  IF n = 0 THEN {<<>>}
  ELSE {<<>>} \cup {line \o <<NL>> \o rest :
                      line \in CatLines(j), rest \in CatTexts(j + 1, n - 1)}

\* ------------------------------------------------------- the program
Init ==
  /\ pc = "ParseArgs"
  /\ ended_at = ""
  /\ argv \in Argvs
  /\ response \in Responses
  /\ l = None
  /\ min_shard_count = None
  /\ max_shard_size = None
  /\ es = "none"
  /\ es_index_cat_raw = None
  /\ es_index_cat_list = None
  /\ failed_index_list = None
  /\ stdout = <<>>
  /\ stderr = <<>>
  /\ exit_code = None

\* The process ends with outcome o of a call that did not return: the
\* text of a sys.exit goes to stdout, an exception's traceback to stderr.
Abort(o) ==
  /\ pc' = "done"
  /\ ended_at' = pc
  /\ exit_code' = ExitStatus(o)
  /\ stdout' = IF o.kind = "exit" THEN o.out ELSE stdout
  /\ stderr' = IF o.kind = "raise" THEN <<Lit("Traceback"), Lit(o.exc)>>
               ELSE stderr

\* Line 104.
ParseArgs ==
  /\ pc = "ParseArgs"
  /\ LET o == parse_args(argv)
     IN IF o.kind = "return"
        THEN /\ l' = o.val
             /\ pc' = "ParseThresholds"
             /\ UNCHANGED <<ended_at, stdout, stderr, exit_code>>
        ELSE /\ pc' = "done"
             /\ ended_at' = pc
             /\ exit_code' = ExitStatus(o)
             /\ stderr' = <<Lit("usage:")>>
             /\ UNCHANGED <<l, stdout>>
  /\ UNCHANGED <<argv, min_shard_count, max_shard_size, es, es_index_cat_raw,
                 es_index_cat_list, failed_index_list, response>>

\* Lines 105-113: both thresholds are converted, whatever the action.
ParseThresholds ==
  /\ pc = "ParseThresholds"
  /\ LET mn == IntOf(l.min_shard_count)
         mx == get_gb_size_from_string(l.max_shard_size)
     IN IF mn.kind # "return"
        THEN Abort(mn) /\ UNCHANGED <<min_shard_count, max_shard_size>>
        ELSE IF mx.kind # "return"
        THEN /\ Abort(mx)
             /\ min_shard_count' = mn.val
             /\ UNCHANGED max_shard_size
        ELSE /\ min_shard_count' = mn.val
             /\ max_shard_size' = mx.val
             /\ pc' = "BuildClient"
             /\ UNCHANGED <<ended_at, stdout, stderr, exit_code>>
  /\ UNCHANGED <<argv, l, es, es_index_cat_raw, es_index_cat_list,
                 failed_index_list, response>>

\* create_default_context(cafile=...): a file named and not readable
\* raises; no file named loads the default trust store.
create_default_context(cafile) ==
  IF cafile \in {"", "ca.pem"} THEN Return("context")
  ELSE Raise("FileNotFoundError")

\* Lines 114-121: the TLS context, then the client with port int(es_port).
BuildClient ==
  /\ pc = "BuildClient"
  /\ LET context == create_default_context(l.ca_file)
         port == IntOf(l.es_port)
     IN IF context.kind # "return" THEN Abort(context) /\ UNCHANGED es
        ELSE IF port.kind # "return" THEN Abort(port) /\ UNCHANGED es
        ELSE /\ es' = "open"
             /\ pc' = "FetchCatalog"
             /\ UNCHANGED <<ended_at, stdout, stderr, exit_code>>
  /\ UNCHANGED <<argv, l, min_shard_count, max_shard_size, es_index_cat_raw,
                 es_index_cat_list, failed_index_list, response>>

\* Line 122: the request; an exception of the client ends the run there.
FetchCatalog ==
  /\ pc = "FetchCatalog"
  /\ IF response.kind = "return"
     THEN /\ es_index_cat_raw' = response.val
          /\ pc' = "CloseClient"
          /\ UNCHANGED <<ended_at, stdout, stderr, exit_code>>
     ELSE Abort(response) /\ UNCHANGED es_index_cat_raw
  /\ UNCHANGED <<argv, l, min_shard_count, max_shard_size, es,
                 es_index_cat_list, failed_index_list, response>>

\* Line 123.
CloseClient ==
  /\ pc = "CloseClient"
  /\ es' = "closed"
  /\ pc' = "ParseCatalog"
  /\ UNCHANGED <<argv, l, min_shard_count, max_shard_size, es_index_cat_raw,
                 es_index_cat_list, failed_index_list, stdout, stderr,
                 exit_code, ended_at, response>>

\* Line 124.
ParseCatalog ==
  /\ pc = "ParseCatalog"
  /\ LET o == parse_index_info(es_index_cat_raw)
     IN IF o.kind = "return"
        THEN /\ es_index_cat_list' = o.val
             /\ pc' = "Evaluate"
             /\ UNCHANGED <<ended_at, stdout, stderr, exit_code>>
        ELSE Abort(o) /\ UNCHANGED es_index_cat_list
  /\ UNCHANGED <<argv, l, min_shard_count, max_shard_size, es,
                 es_index_cat_raw, failed_index_list, response>>

\* The call of line 127 or of line 138, by the action.
Evaluation(action, es_index_list, min_count, max_size) ==
  IF action = "check_shard_size"
  THEN confirm_es_shard_size(es_index_list, max_size)
  ELSE confirm_es_shard_count(es_index_list, min_count)

\* Lines 126-127 and 137-138.
Evaluate ==
  /\ pc = "Evaluate"
  /\ LET o == Evaluation(l.action, es_index_cat_list, min_shard_count,
                         max_shard_size)
     IN IF o.kind = "return"
        THEN /\ failed_index_list' = o.val
             /\ pc' = "Report"
             /\ UNCHANGED <<ended_at, stdout, stderr, exit_code>>
        ELSE Abort(o) /\ UNCHANGED failed_index_list
  /\ UNCHANGED <<argv, l, min_shard_count, max_shard_size, es,
                 es_index_cat_raw, es_index_cat_list, response>>

\* The text printed by lines 128-135 (size) and 139-146 (count).
Message(action, failed, es_index, min_count, max_size) ==
  IF action = "check_shard_size"
  THEN IF Len(failed) = 1
       THEN <<Lit("CRITICAL:"), Lit(" Index "), Str(failed[1]),
              Lit(" has shards bigger than "), Num(max_size), Lit(" GB!")>>
       ELSE IF Len(failed) > 1
       THEN <<Lit("CRITICAL:"), Lit(" "), Num(Len(failed)),
              Lit(" indices have shards bigger than "), Num(max_size),
              Lit(" GB!"), Lit(NL), Str(Join(failed, <<",", " ">>))>>
       ELSE <<Lit("OK:"), Lit(" All shards for indices with pattern \""),
              Str(es_index), Lit("\" are less then "), Num(max_size),
              Lit(" GB.")>>
  ELSE IF Len(failed) = 1
       THEN <<Lit("CRITICAL:"), Lit(" Index "), Str(failed[1]),
              Lit(" has only 1 primary shard which is less then minimum shard count "),
              Num(min_count), Lit("!")>>
       ELSE IF Len(failed) > 1
       THEN <<Lit("CRITICAL:"), Lit(" "), Num(Len(failed)),
              Lit(" indices have less primary shards then minimum shard count "),
              Num(min_count), Lit("!"), Lit(NL),
              Str(Join(failed, <<",", " ">>))>>
       ELSE <<Lit("OK:"), Lit(" All shards or indices with pattern \""),
              Str(es_index), Lit("\" have at least "), Num(min_count),
              Lit(" shard count.")>>

\* The status with the test of the list turned round.
StatusTurned(failed) == IF Len(failed) = 0 THEN NAGIOS_CRITICAL ELSE NAGIOS_OK

\* The status of lines 133, 136, 144 and 147.
Status(failed) == IF Len(failed) # 0 THEN NAGIOS_CRITICAL ELSE NAGIOS_OK

\* Lines 128-136 and 139-147.
Report ==
  /\ pc = "Report"
  /\ stdout' = Message(l.action, failed_index_list, l.es_index,
                       min_shard_count, max_shard_size)
  /\ exit_code' = Status(failed_index_list)
  /\ pc' = "done"
  /\ ended_at' = pc
  /\ UNCHANGED <<argv, l, min_shard_count, max_shard_size, es,
                 es_index_cat_raw, es_index_cat_list, failed_index_list,
                 stderr, response>>

Next ==
  \/ ParseArgs
  \/ ParseThresholds
  \/ BuildClient
  \/ FetchCatalog
  \/ CloseClient
  \/ ParseCatalog
  \/ Evaluate
  \/ Report

Spec == Init /\ [][Next]_vars

\* The state a run starts in on command line a when the cluster will
\* answer r.
Start(a, r) ==
  /\ pc = "ParseArgs"
  /\ ended_at = ""
  /\ argv = a
  /\ response = r
  /\ l = None
  /\ min_shard_count = None
  /\ max_shard_size = None
  /\ es = "none"
  /\ es_index_cat_raw = None
  /\ es_index_cat_list = None
  /\ failed_index_list = None
  /\ stdout = <<>>
  /\ stderr = <<>>
  /\ exit_code = None

\* The runs that give every size token as --max_shard_size.
InitSize ==
  \E s \in SizeTokens :
    \E r \in {Return(Listing(<<"1x2gb", "2x2gb">>, 1)),
              Raise("ConnectionError")} :
      Start(Argv("", <<Opt("--max_shard_size", s)>>), r)

SpecSize == InitSize /\ [][Next]_vars

\* The runs that are answered every catalog text.
InitCat ==
  \E t \in CatTexts(1, MaxLines) :
    Start(Argv("check_shard_count", <<>>), Return(t))

SpecCat == InitCat /\ [][Next]_vars

\* ------------------------------------------------ the run as a function
\* What a whole run of __main__ on command line a leaves when the cluster
\* answers r: the exit status, the step that ended it and the list of
\* failed indices (empty when the run did not come to report one).
Ended(step, status, failed) ==
  [exit |-> status, ended_at |-> step, failed |-> failed]

RunOutcome(a, r) ==
  LET args == parse_args(a)
      ns == args.val
      mn == IntOf(ns.min_shard_count)
      mx == get_gb_size_from_string(ns.max_shard_size)
      context == create_default_context(ns.ca_file)
      port == IntOf(ns.es_port)
      cat == parse_index_info(r.val)
      ev == Evaluation(ns.action, cat.val, mn.val, mx.val)
  IN IF args.kind # "return" THEN Ended("ParseArgs", ExitStatus(args), <<>>)
     ELSE IF mn.kind # "return"
     THEN Ended("ParseThresholds", ExitStatus(mn), <<>>)
     ELSE IF mx.kind # "return"
     THEN Ended("ParseThresholds", ExitStatus(mx), <<>>)
     ELSE IF context.kind # "return"
     THEN Ended("BuildClient", ExitStatus(context), <<>>)
     ELSE IF port.kind # "return"
     THEN Ended("BuildClient", ExitStatus(port), <<>>)
     ELSE IF r.kind # "return"
     THEN Ended("FetchCatalog", ExitStatus(r), <<>>)
     ELSE IF cat.kind # "return"
     THEN Ended("ParseCatalog", ExitStatus(cat), <<>>)
     ELSE IF ev.kind # "return" THEN Ended("Evaluate", ExitStatus(ev), <<>>)
     ELSE Ended("Report", Status(ev.val), ev.val)

\* The outcome of the run the state is the end of.
Outcome ==
  Ended(ended_at, exit_code,
        IF ended_at = "Report" THEN failed_index_list ELSE <<>>)

\* The run ends as the function says.
RunOutcomeAgrees == pc = "done" => Outcome = RunOutcome(argv, response)

\* ------------------------------------------------------------- claims
\* The threshold evaluator has returned its list.
Evaluated == pc = "Report" \/ (pc = "done" /\ ended_at = "Report")

\* The index names of a list of records.
Names(records) == [k \in 1..Len(records) |-> records[k][1]]

\* A record of the catalog is well formed for the count check: its shard
\* count is an integer; for the size check the count is positive and the
\* size token parses.
CountFormed(rec) == IntOf(rec[2]).kind = "return"
SizeFormed(rec) ==
  /\ IntOf(rec[2]).kind = "return"
  /\ IntOf(rec[2]).val > 0
  /\ get_gb_size_from_string(rec[3]).kind = "return"

\* A size of at least 10^-3 GB, in units of 10^-3 GB.
InMB(d) == d.m * Pow10(d.e + 3)

\* The records whose average primary-shard size exceeds max_size: size / n
\* > max, with n > 0, is size > max * n.
SizeViolators(records, max_size) ==
  Names(SelectSeq(records,
          LAMBDA rec : InMB(get_gb_size_from_string(rec[3]).val)
                         > InMB(max_size) * IntOf(rec[2]).val))

\* The records with fewer primary shards than min_count.
CountViolators(records, min_count) ==
  Names(SelectSeq(records, LAMBDA rec : IntOf(rec[2]).val < min_count))

\* name is in some value put into the printed text.
Printed(text, name) ==
  \E k \in 1..Len(text) : text[k].t = "str" /\ Contains(text[k].v, name)

\* The printed text is a single line.
OneLine(text) ==
  \A k \in 1..Len(text) :
    /\ text[k].t = "lit" => text[k].v # NL
    /\ text[k].t = "str" => ~Contains(text[k].v, <<NL>>)

\* C1: every run ends with exit status 0 (OK) or 2 (CRITICAL), never 1 or
\* 3: a step that fails ends the run there with status 2.
C1_ExitOkOrCritical ==
  pc = "done" => exit_code \in {NAGIOS_OK, NAGIOS_CRITICAL}

\* C2: a run that came to report exits with status 2 and a text that starts
\* with "CRITICAL:" and holds the name of every index violating the active
\* threshold (the names joined by ", " when there are several) exactly when
\* the selected action's list of violators is not empty; otherwise it exits
\* with status 0 and a single line that starts with "OK:".
C2_Verdict ==
  pc = "done" /\ ended_at = "Report" =>
    LET violators ==
          IF l.action = "check_shard_size"
          THEN SizeViolators(es_index_cat_list, max_shard_size)
          ELSE CountViolators(es_index_cat_list, min_shard_count)
    IN IF violators # <<>>
       THEN /\ exit_code = NAGIOS_CRITICAL
            /\ stdout[1] = Lit("CRITICAL:")
            /\ \A k \in 1..Len(violators) : Printed(stdout, violators[k])
            /\ Len(violators) > 1 =>
                 Printed(stdout, Join(violators, <<",", " ">>))
       ELSE /\ exit_code = NAGIOS_OK
            /\ stdout[1] = Lit("OK:")
            /\ OneLine(stdout)

\* C2's case: a run reported two violators, and another none.
C2_Witness ==
  /\ pc = "done" /\ ended_at = "Report"
  /\ Len(failed_index_list) = 2
  /\ exit_code = NAGIOS_CRITICAL

\* C5: check_shard_size returns, in input order, exactly the names of the
\* records whose average primary-shard size (the parsed size over the shard
\* count) is strictly above the bound; a record at the bound is not in the
\* list; on well-formed records it always returns.
C5_ShardSize ==
  /\ Evaluated /\ l.action = "check_shard_size" =>
       /\ \A k \in 1..Len(es_index_cat_list) :
            SizeFormed(es_index_cat_list[k])
       /\ failed_index_list
            = SizeViolators(es_index_cat_list, max_shard_size)
  /\ pc = "done" /\ ended_at = "Evaluate" /\ l.action = "check_shard_size" =>
       \E k \in 1..Len(es_index_cat_list) : ~SizeFormed(es_index_cat_list[k])

\* C5's case: of two records, the first is exactly at the bound and is not
\* listed, the second is above it and is.
C5_Witness ==
  /\ Evaluated /\ l.action = "check_shard_size"
  /\ Len(es_index_cat_list) = 2
  /\ InMB(get_gb_size_from_string(es_index_cat_list[1][3]).val)
       = InMB(max_shard_size) * IntOf(es_index_cat_list[1][2]).val
  /\ IntOf(es_index_cat_list[1][2]).val > 1
  /\ failed_index_list = <<es_index_cat_list[2][1]>>

\* C6: check_shard_count returns, in input order, exactly the names of the
\* records whose shard count is strictly below min_count; a record with
\* min_count shards is not in the list; on records with an integer count
\* it always returns.
C6_ShardCount ==
  /\ Evaluated /\ l.action = "check_shard_count" =>
       /\ \A k \in 1..Len(es_index_cat_list) :
            CountFormed(es_index_cat_list[k])
       /\ failed_index_list
            = CountViolators(es_index_cat_list, min_shard_count)
  /\ pc = "done" /\ ended_at = "Evaluate" /\ l.action = "check_shard_count" =>
       \E k \in 1..Len(es_index_cat_list) :
         ~CountFormed(es_index_cat_list[k])

\* C6's case: of two records, the first has exactly min_count shards and
\* is not listed, the second has fewer and is.
C6_Witness ==
  /\ Evaluated /\ l.action = "check_shard_count"
  /\ Len(es_index_cat_list) = 2
  /\ IntOf(es_index_cat_list[1][2]).val = min_shard_count
  /\ failed_index_list = <<es_index_cat_list[2][1]>>

\* C8: every record that reaches the threshold evaluator has a positive
\* shard count (a line reporting 0 shards is a parse error), so that the
\* average of check_shard_size never divides by zero.
C8_PositiveCounts ==
  /\ pc = "Evaluate" =>
       \A k \in 1..Len(es_index_cat_list) :
         LET pri == IntOf(es_index_cat_list[k][2])
         IN pri.kind = "return" => pri.val > 0
  /\ pc = "done" =>
       stderr # <<Lit("Traceback"), Lit("ZeroDivisionError")>>

\* The threshold option the action does not use.
Inactive(a) ==
  IF a.action = "check_shard_count" THEN "--max_shard_size"
  ELSE "--min_shard_count"

\* The command lines that differ from a at most in the value given for the
\* inactive threshold (argparse lets it be given only without the other).
InactiveVariants(a) ==
  IF \E k \in 1..Len(a.thresholds) : a.thresholds[k].opt # Inactive(a)
  THEN {a}
  ELSE {[a EXCEPT !.thresholds = t] :
          t \in {<<>>} \cup {<<Opt(Inactive(a), v)>> :
                              v \in MinArgs \cup MaxArgs}}

\* C9: a threshold option is used only by its own action: the run ends with
\* the same exit status and the same verdict whatever value, malformed
\* ones included, is given for the inactive threshold.
C9_InactiveIgnored ==
  pc = "done" /\ argv.required
    /\ argv.action \in {"", "check_shard_size", "check_shard_count"} =>
      \A a \in InactiveVariants(argv) :
        /\ RunOutcome(a, response).exit = exit_code
        /\ RunOutcome(a, response).failed = Outcome.failed

\* C10: a run that built the client has closed it when the process exits,
\* also when the request failed.
C10_ClosedAtExit == pc = "done" /\ es # "none" => es = "closed"

\* The size token of the run.
Token ==
  OptValue(argv.thresholds, "--max_shard_size", <<"5", "0", "g", "b">>)

\* The thresholds have been converted, or the conversion ended the run.
Converted ==
  pc \notin {"ParseArgs", "ParseThresholds"} /\ ended_at # "ParseArgs"

Units == {TB, GB, MB, KB, B}

\* The longest unit s ends in.
Unit(s) ==
  CHOOSE u \in Units :
    /\ EndsWith(s, u)
    /\ \A v \in Units : EndsWith(s, v) => Len(v) <= Len(u)

\* What is before the unit.
Numeric(s) == SubSeq(s, 1, Len(s) - Len(Unit(s)))

\* s ends in a unit and what is before it is a number.
WellFormed(s) ==
  /\ \E u \in Units : EndsWith(s, u)
  /\ FloatOf(Numeric(s)).kind = "return"

\* The power of ten that takes a unit to gigabytes.
UnitExp(u) ==
  CASE u = TB -> 3 [] u = GB -> 0 [] u = MB -> 0 - 3 [] u = KB -> 0 - 6
    [] u = B -> 0 - 9

\* C3: the size parser returns a value only for a token that ends in one of
\* b, kb, mb, gb, tb with a non-negative number before the unit; on every
\* other token the program reports the error and exits with status 2.
C3_SizeFailClosed ==
  Converted /\ ~(WellFormed(Token) /\ FloatOf(Numeric(Token)).val.m >= 0) =>
    /\ pc = "done"
    /\ ended_at = "ParseThresholds"
    /\ exit_code = NAGIOS_CRITICAL
    /\ stdout # <<>>

\* C4: on a token that ends in a unit with a number before it, the size
\* parser takes the longest unit the token ends in and returns the number
\* before it scaled to gigabytes: tb 10^3, gb 1, mb 10^-3, kb 10^-6,
\* b 10^-9.
C4_SizeScale ==
  Converted /\ WellFormed(Token) =>
    /\ ended_at # "ParseThresholds"
    /\ max_shard_size
         = [m |-> FloatOf(Numeric(Token)).val.m,
            e |-> FloatOf(Numeric(Token)).val.e + UnitExp(Unit(Token))]

\* C4's case: a token that ends in tb, and so in b, was converted.
C4_Witness ==
  /\ pc = "BuildClient"
  /\ Token = <<"5", "t", "b">>
  /\ max_shard_size = [m |-> 5, e |-> 3]

\* The places where a column of the line starts.
FieldStarts(line) ==
  {i \in 1..Len(line) : line[i] # SP /\ (i = 1 \/ line[i - 1] = SP)}

\* Column n of the line, counted from 0: from its start to the character
\* before the next space.
Field(line, n) ==
  LET start == CHOOSE i \in FieldStarts(line) :
                 Cardinality({j \in FieldStarts(line) : j < i}) = n
      end == CHOOSE j \in start..Len(line) :
               /\ \A k \in start..j : line[k] # SP
               /\ j = Len(line) \/ line[j + 1] = SP
  IN SubSeq(line, start, end)

\* The lines of the text that are neither empty nor hold " index " or
\* " close ".
DataLines(text) ==
  SelectSeq(SplitOn(text, NL),
            LAMBDA line : /\ line # <<>>
                          /\ ~Contains(line, INDEX)
                          /\ ~Contains(line, CLOSE))

\* The catalog parser has returned its list.
Parsed ==
  \/ pc \in {"Evaluate", "Report"}
  \/ pc = "done" /\ ended_at \in {"Evaluate", "Report"}

\* C7: the catalog parser gives one record for every line that is neither
\* empty nor holds " index " or " close ", in the order of the response,
\* and none for another line; the record holds columns 2, 3 and 7 of its
\* line, however many spaces are between the columns. It returns whenever
\* every such line has the 8 columns.
C7_Catalog ==
  LET lines == DataLines(es_index_cat_raw)
  IN /\ Parsed =>
          /\ Len(es_index_cat_list) = Len(lines)
          /\ \A k \in 1..Len(lines) :
               /\ Cardinality(FieldStarts(lines[k])) >= 8
               /\ es_index_cat_list[k]
                    = <<Field(lines[k], 2), Field(lines[k], 3),
                        Field(lines[k], 7)>>
     /\ pc = "done" /\ ended_at = "ParseCatalog" =>
          \E k \in 1..Len(lines) : Cardinality(FieldStarts(lines[k])) < 8

\* C7's case: of three lines the parser left out the closed one and gave the
\* records of the other two, one of them with wide gaps, in their order.
C7_Witness ==
  /\ Parsed
  /\ Len(SplitOn(es_index_cat_raw, NL)) = 3
  /\ Contains(es_index_cat_raw, CLOSE)
  /\ Contains(es_index_cat_raw, <<SP, SP>>)
  /\ Len(es_index_cat_list) = 1
  /\ es_index_cat_list[1][1] = Name(2)

====
